---- MODULE Spec2Model ----
(***************************************************************************)
(* A model of pyblend's helpers over the host scene graph:                 *)
(*   shapekeys.transfer_shape_keys, file_io.export_fbx / export_gltf,      *)
(*   armature.set_armature / set_armature_on_objects,                      *)
(*   object.maintain_object_selection, object.unlink_object(s).            *)
(* The host (bpy) is modelled by the state it keeps for these calls: the   *)
(* shape-key lists of meshes, modifier stacks, parents, the selection,     *)
(* libraries.  Host operations are nondeterministic where the host         *)
(* decides the outcome (an exporter's result, an exception it raises).     *)
(***************************************************************************)
EXTENDS Integers, Sequences, FiniteSets, TLC

\* ------------------------------------------------------------------ bounds
MaxKeys == 3        \* longest list of shape keys on the source mesh
MaxOld == 1         \* longest list of shape keys the target holds before
MaxVerts == 2       \* vertex count of the target mesh
MaxMods == 2        \* longest modifier stack an object starts with
MaxObjs == 2        \* longest list passed to set_armature_on_objects
MaxCalls == 2       \* how often set_armature is called in a row
MaxEdits == 2       \* selection changes made inside a with-block
MaxUnlink == 2      \* longest list passed to unlink_objects

\* ------------------------------------------------ sequences, common helpers
Min(S) == CHOOSE x \in S : \A y \in S : x <= y

\* the sequences over S with pairwise different elements, up to length n
InjSeqs(S, n) ==
    {s \in UNION {[1..k -> S] : k \in 0..n} :
        \A i, j \in 1..Len(s) : i # j => s[i] # s[j]}

\* --------------------------------------------------------------- host names
\* A host name is a stem and a counter suffix: <<"A", 0>> is "A",
\* <<"A", 1>> is "A.001".
Plain(stem) == <<stem, 0>>

\* the names shape keys bear: as many as the longest source list has keys
NamePool == <<Plain("Basis"), Plain("A"), Plain("B"), Plain("C"), Plain("D")>>

Names == {NamePool[i] : i \in 1..MaxKeys}

\* the handle None, where an object is expected
NoObj == "none"

\* The host keeps names unique within their collection: a taken name gets
\* the next free counter suffix after its own.
UniqueName(name, taken) ==
    IF name \notin taken THEN name
    ELSE <<name[1], Min({k \in (name[2] + 1)..(name[2] + Cardinality(taken) + 1) :
                             <<name[1], k>> \notin taken})>>

VARIABLES
    \* ---- shapekeys.transfer_shape_keys
    mesh,            \* mesh id -> its list of shape keys (<<>>: shape_keys is None)
    pc,              \* position of the call to transfer_shape_keys
    src, target,     \* the object handles passed: a mesh id, or NoObj for None
    keys,            \* the keys argument: [given |-> FALSE] for None, else a list
    base_name,       \* the base_name argument
    nEval,           \* vertex count of the evaluated target (host-computed)
    pre,             \* mesh, as it was when the call was made
    src_shape_keys,  \* the reference line 70 takes: "unset", "live" or "dangling"
    todo,            \* the keys the for loop of line 76 has yet to visit
    src_key,         \* index of the loop's current source key (0: none)
    target_key,      \* index on the target of the key line 79 made (0: none)
    positions,       \* what line 81 read
    touched,         \* indices of the source keys whose weight the call wrote
    \* ---- file_io.export_fbx, file_io.export_gltf
    exPc,            \* position of the call to export_fbx / export_gltf
    exporter,        \* which of the two is called: "fbx" or "gltf"
    filepath,        \* str(filepath), a sequence of characters
    hostResult,      \* what the host exporter did, NotRun before it runs
    invocations,     \* how many times the host exporter was invoked
    ret,             \* the call's outcome: a tuple returned, or an exception raised
    \* ---- armature.set_armature, armature.set_armature_on_objects
    parent,          \* object -> its parent object, or NoObj
    modifiers,       \* object -> its modifier stack
    armCall,         \* the last call: function, arguments, return value
    armCalls,        \* how many calls were made
    armPre,          \* parent and modifiers as they were before the last call
    \* ---- object.maintain_object_selection
    selected,        \* the objects whose select_get() is True
    active,          \* the view layer's active object, or NoObj
    selPc,           \* "outside", "inside" the with-block, or "after" it
    previous_selection, \* line 19
    active_object,   \* line 20
    entry,           \* selection and active object as they were on entry
    edits,           \* how many selection changes the block has made
    exitBy,          \* how the block ended: "return" or "exception"
    \* ---- object.unlink_object, object.unlink_objects
    library,         \* object -> the library it is linked from, or NoLib
    removed,         \* the objects the host has removed from the file
    libraries,       \* the libraries of the file
    ulPc,            \* position of the call to unlink_objects
    ulObjects,       \* its objects argument
    ulType,          \* its type_ argument, NoType for None
    ulLeft,          \* the objects the loop has yet to visit
    ulRet,           \* the local ret
    ulOut,           \* the call's outcome: a value returned, or an exception raised
    attempted,       \* the objects unlink_object was called on
    warnings         \* how many warnings were logged

shapeVars == <<mesh, pc, src, target, keys, base_name, nEval, pre, src_shape_keys,
               todo, src_key, target_key, positions, touched>>

exportVars == <<exPc, exporter, filepath, hostResult, invocations, ret>>

armVars == <<parent, modifiers, armCall, armCalls, armPre>>

selVars == <<selected, active, selPc, previous_selection, active_object, entry, edits, exitBy>>

unlinkVars == <<library, removed, libraries, ulPc, ulObjects, ulType, ulLeft, ulRet, ulOut,
                attempted, warnings>>

vars == <<shapeVars, exportVars, armVars, selVars, unlinkVars>>

\* what the actions of one part leave alone: the state of the other parts
notShape == <<exportVars, armVars, selVars, unlinkVars>>

notExport == <<shapeVars, armVars, selVars, unlinkVars>>

notArmature == <<shapeVars, exportVars, selVars, unlinkVars>>

notSelection == <<shapeVars, exportVars, armVars, unlinkVars>>

notUnlink == <<shapeVars, exportVars, armVars, selVars>>

\* ================================================= file_io/fbx.py, gltf.py
\* str.lower() on the characters that occur
Lower(c) ==
    CASE c = "F" -> "f" [] c = "B" -> "b" [] c = "X" -> "x"
      [] c = "G" -> "g" [] c = "L" -> "l" [] c = "T" -> "t"
      [] OTHER -> c

lower(s) == [i \in 1..Len(s) |-> Lower(s[i])]

endswith(s, suffix) ==
    /\ Len(s) >= Len(suffix)
    /\ SubSeq(s, Len(s) - Len(suffix) + 1, Len(s)) = suffix

\* the destination paths tried
Paths ==
    { <<"a", ".", "f", "b", "x">>, <<"a", ".", "F", "B", "X">>, <<"a", ".", "F", "b", "x">>,
      <<".", "f", "b", "x">>, <<"f", "b", "x">>, <<"a", ".", "f", "b">>,
      <<"a", ".", "f", "b", "x", "a">>, <<"a", ".", "f", "b", "x", ".", "t">>,
      <<"a", ".", "g", "l", "b">>, <<"a", ".", "G", "L", "B">>, <<"a", ".", "g", "L", "b">>,
      <<"a", ".", "g", "l", "t", "f">>, <<"a", ".", "G", "L", "T", "F">>,
      <<"a", ".", "g", "l", "t">>, <<"g", "l", "b">>, <<"a", ".", "g", "l", "b", "x">>,
      <<"a">>, <<>> }

NotRun == "not run"

\* what the host exporter may do: return a status set, or raise
HostReturns == {"FINISHED", "CANCELLED"}

HostRaises == {"IOError", "AttributeError", "TypeError", "RuntimeError"}

\* a faulty extension test, which forgets the dot
ExtensionWithoutDot(fn, path) ==
    IF fn = "fbx" THEN endswith(lower(path), <<"f", "b", "x">>)
    ELSE \/ endswith(lower(path), <<"g", "l", "b">>)
         \/ endswith(lower(path), <<"g", "l", "t", "f">>)

\* fbx.py line 23, gltf.py line 19: the extension test
has_valid_extension(fn, path) ==
    IF fn = "fbx" THEN endswith(lower(path), <<".", "f", "b", "x">>)
    ELSE \/ endswith(lower(path), <<".", "g", "l", "b">>)
         \/ endswith(lower(path), <<".", "g", "l", "t", "f">>)

\* a faulty handler, which catches every exception
CatchesAny(exc) == TRUE

\* fbx.py line 30, gltf.py line 25: except IOError
Catches(exc) == exc = "IOError"

Returned(ok, msg) == [raised |-> "none", ok |-> ok, msg |-> msg]

Raised(exc) == [raised |-> exc, ok |-> FALSE, msg |-> "none"]

NoOutcome == [raised |-> "none", ok |-> FALSE, msg |-> "pending"]

\* fbx.py lines 27-32, gltf.py lines 22-27: the outcome for what the host did
OutcomeOf(result) ==
    IF result \in HostRaises
    THEN IF Catches(result) THEN Returned(FALSE, "Failed to write file, with the error")
         ELSE Raised(result)
    ELSE IF result = "CANCELLED" THEN Returned(FALSE, "Failed to write file")
         ELSE Returned(TRUE, "Saved file")

ExportIdle ==
    /\ exPc = "idle"
    /\ exporter = "fbx"
    /\ filepath = <<>>
    /\ hostResult = NotRun
    /\ invocations = 0
    /\ ret = NoOutcome

\* export_fbx(filepath) or export_gltf(filepath) is called: filepath = str(filepath)
ExportCall(fn, path) ==
    /\ exPc = "idle"
    /\ exporter' = fn /\ filepath' = path
    /\ exPc' = "extension"
    /\ UNCHANGED <<hostResult, invocations, ret>>
    /\ UNCHANGED notExport

\* fbx.py lines 23-24, gltf.py lines 19-20
CheckExtension ==
    /\ exPc = "extension"
    /\ IF has_valid_extension(exporter, filepath)
       THEN exPc' = "export" /\ ret' = ret
       ELSE exPc' = "done" /\ ret' = Returned(FALSE, "Destination file is not of this format")
    /\ UNCHANGED <<exporter, filepath, hostResult, invocations>>
    /\ UNCHANGED notExport

\* fbx.py lines 26-32, gltf.py lines 22-27: the host exporter runs, and the
\* call returns or lets the exception through
RunExporter(result) ==
    /\ exPc = "export"
    /\ hostResult' = result
    /\ invocations' = invocations + 1
    /\ ret' = OutcomeOf(result)
    /\ exPc' = "done"
    /\ UNCHANGED <<exporter, filepath>>
    /\ UNCHANGED notExport

ExportNext ==
    \/ \E fn \in {"fbx", "gltf"}, path \in Paths : ExportCall(fn, path)
    \/ CheckExtension
    \/ \E result \in HostReturns \cup HostRaises : RunExporter(result)

\* ============================================================= armature.py
Objs == {"rig", "rig2", "body", "hair", "lamp"}

\* obj.type
TypeOf(o) ==
    CASE o \in {"rig", "rig2"} -> "ARMATURE"
      [] o \in {"body", "hair"} -> "MESH"
      [] OTHER -> "LIGHT"

\* the host adds modifiers to geometry objects only
SupportsModifiers(type) == type = "MESH"

Modifier(type, name, object) == [type |-> type, name |-> name, object |-> object]

ModNames(stack) == {stack[i].name : i \in 1..Len(stack)}

\* the modifiers an object may start with: armature modifiers on no or
\* another armature, and a modifier of another type, named "Armature" with
\* or without a counter suffix
StartNames == {<<"Armature", k>> : k \in 0..(MaxMods - 1)}

StartModifiers ==
    {Modifier("ARMATURE", n, o) : n \in StartNames, o \in {NoObj, "rig2"}}
      \cup {Modifier("SUBSURF", n, NoObj) : n \in StartNames}

\* modifier names are unique within a stack
StartStacks ==
    {st \in UNION {[1..k -> StartModifiers] : k \in 0..MaxMods} :
        \A i, j \in 1..Len(st) : i # j => st[i].name # st[j].name}

\* a faulty search, which never finds an armature modifier
NoArmatureModifier(stack) == 0

\* get_first_armature_modifier(obj), as an index into the stack: 0 for None
get_first_armature_modifier(stack) ==
    IF \E i \in 1..Len(stack) : stack[i].type = "ARMATURE"
    THEN Min({i \in 1..Len(stack) : stack[i].type = "ARMATURE"})
    ELSE 0

\* obj.modifiers.new(name=name, type=type): the stack afterwards; the same
\* stack (the call returns None) when the object takes no modifiers
modifiers_new(o, stack, name, type) ==
    IF SupportsModifiers(TypeOf(o))
    THEN Append(stack, Modifier(type, UniqueName(name, ModNames(stack)), NoObj))
    ELSE stack

\* whether a is o or has o among its ancestors, under the parents par
RECURSIVE HasAncestorOrSelf(_, _, _, _)
HasAncestorOrSelf(par, a, o, fuel) ==
    IF a = NoObj \/ fuel = 0 THEN FALSE
    ELSE a = o \/ HasAncestorOrSelf(par, par[a], o, fuel - 1)

\* obj.parent = armature: the host refuses a parent that is the object or
\* one of its descendants, and clears the parent instead
set_parent(par, o, a) ==
    [par EXCEPT ![o] = IF HasAncestorOrSelf(par, a, o, Cardinality(Objs)) THEN NoObj ELSE a]

\* mod.name = name: the host keeps the name unique among the other modifiers
set_modifier_name(stack, i, name) ==
    [stack EXCEPT ![i].name =
        UniqueName(name, {stack[j].name : j \in (1..Len(stack)) \ {i}})]

Scene(par, mods) == [parent |-> par, modifiers |-> mods]

\* set_armature(obj, armature): the scene afterwards and the value returned
set_armature(sc, o, a) ==
    IF TypeOf(a) # "ARMATURE" THEN [scene |-> sc, ok |-> FALSE]
    ELSE LET first == get_first_armature_modifier(sc.modifiers[o])
             stack == IF first # 0 THEN sc.modifiers[o]
                      ELSE modifiers_new(o, sc.modifiers[o], Plain("Armature"), "ARMATURE")
             mod == IF first # 0 THEN first
                    ELSE IF Len(stack) > Len(sc.modifiers[o]) THEN Len(stack) ELSE 0
         IN  IF mod = 0 THEN [scene |-> sc, ok |-> FALSE]
             ELSE [scene |->
                      Scene(set_parent(sc.parent, o, a),
                            [sc.modifiers EXCEPT ![o] =
                                set_modifier_name([stack EXCEPT ![mod].object = a],
                                                  mod, Plain("Armature"))]),
                   ok |-> TRUE]

\* a faulty accumulation, which keeps the last result only
AccumulateLast(success, ok) == ok

\* line 62: success &= set_armature(obj, armature)
Accumulate(success, ok) == success /\ ok

\* set_armature_on_objects(objects, armature), from the i-th object on
RECURSIVE set_armature_on_objects(_, _, _, _)
set_armature_on_objects(sc, objects, a, success) ==
    IF objects = <<>> THEN [scene |-> sc, ok |-> success]
    ELSE IF TypeOf(Head(objects)) = "ARMATURE"
         THEN set_armature_on_objects(sc, Tail(objects), a, success)
         ELSE LET one == set_armature(sc, Head(objects), a)
              IN  set_armature_on_objects(one.scene, Tail(objects), a,
                                          Accumulate(success, one.ok))

NoCall == [fn |-> "none", objects |-> <<>>, armature |-> NoObj, ok |-> FALSE]

ArmIdle ==
    /\ armCall = NoCall
    /\ armCalls = 0
    /\ armPre = Scene(parent, modifiers)

\* nothing is parented, no object has modifiers
ArmNone ==
    /\ parent = [o \in Objs |-> NoObj]
    /\ modifiers = [o \in Objs |-> <<>>]
    /\ ArmIdle

\* body starts with any stack and may hang under rig2; rig may hang under body
ArmInit ==
    /\ \E bp \in {NoObj, "rig2"}, rp \in {NoObj, "body"} :
          parent = [o \in Objs |-> IF o = "body" THEN bp ELSE IF o = "rig" THEN rp ELSE NoObj]
    /\ \E st \in StartStacks :
          modifiers = [o \in Objs |-> IF o = "body" THEN st ELSE <<>>]
    /\ ArmIdle

\* set_armature(o, a) is called, for the first time or again as before
SetArmature(o, a) ==
    /\ armCalls < MaxCalls
    /\ armCall.fn = "none" \/ armCall = [armCall EXCEPT !.fn = "set_armature",
                                                         !.objects = <<o>>, !.armature = a]
    /\ LET out == set_armature(Scene(parent, modifiers), o, a)
       IN  /\ parent' = out.scene.parent
           /\ modifiers' = out.scene.modifiers
           /\ armCall' = [fn |-> "set_armature", objects |-> <<o>>, armature |-> a,
                          ok |-> out.ok]
    /\ armCalls' = armCalls + 1
    /\ armPre' = Scene(parent, modifiers)
    /\ UNCHANGED notArmature

\* set_armature_on_objects(objects, a) is called
SetArmatureOnObjects(objects, a) ==
    /\ armCall.fn = "none"
    /\ LET out == set_armature_on_objects(Scene(parent, modifiers), objects, a, TRUE)
       IN  /\ parent' = out.scene.parent
           /\ modifiers' = out.scene.modifiers
           /\ armCall' = [fn |-> "set_armature_on_objects", objects |-> objects,
                          armature |-> a, ok |-> out.ok]
    /\ armCalls' = armCalls + 1
    /\ armPre' = Scene(parent, modifiers)
    /\ UNCHANGED notArmature

ArmNext ==
    \/ \E o \in Objs, a \in Objs : SetArmature(o, a)
    \/ \E objects \in InjSeqs(Objs, MaxObjs), a \in {"rig", "body"} :
          SetArmatureOnObjects(objects, a)

\* =============================================================== object.py
\* ---------------------------------------------- maintain_object_selection
\* bpy.data.objects, for the selection
SceneObjs == {"cube", "lamp", "rig"}

\* lines 24-28: the selection after the finally clause ran
restore_selection(sel, previous) ==
    IF previous # {} THEN sel \cup previous   \* obj.select_set(True), each
    ELSE {}                                   \* select_all(action="DESELECT")

SelIdle ==
    /\ selPc = "outside"
    /\ previous_selection = {}
    /\ active_object = NoObj
    /\ entry = [selected |-> selected, active |-> active]
    /\ edits = 0
    /\ exitBy = "none"

\* nothing is selected, no with-block is entered
SelNone ==
    /\ selected = {}
    /\ active = NoObj
    /\ SelIdle

\* any selection, any active object
SelInit ==
    /\ selected \in SUBSET SceneObjs
    /\ active \in SceneObjs \cup {NoObj}
    /\ SelIdle

\* lines 19-22: the with-block is entered
Enter ==
    /\ selPc = "outside"
    /\ previous_selection' = selected
    /\ active_object' = active
    /\ entry' = [selected |-> selected, active |-> active]
    /\ selPc' = "inside"
    /\ UNCHANGED <<selected, active, edits, exitBy>>
    /\ UNCHANGED notSelection

\* inside the block: obj.select_set(state)
SelectSet(o, state) ==
    /\ selPc = "inside"
    /\ edits < MaxEdits
    /\ selected' = IF state THEN selected \cup {o} ELSE selected \ {o}
    /\ edits' = edits + 1
    /\ UNCHANGED <<active, selPc, previous_selection, active_object, entry, exitBy>>
    /\ UNCHANGED notSelection

\* inside the block: view_layer.objects.active = obj
SetActive(o) ==
    /\ selPc = "inside"
    /\ edits < MaxEdits
    /\ active' = o
    /\ edits' = edits + 1
    /\ UNCHANGED <<selected, selPc, previous_selection, active_object, entry, exitBy>>
    /\ UNCHANGED notSelection

\* lines 23-29: the block ends, by its last statement or by an exception,
\* and the finally clause runs
Leave(how) ==
    /\ selPc = "inside"
    /\ selected' = restore_selection(selected, previous_selection)
    /\ active' = active_object
    /\ exitBy' = how
    /\ selPc' = "after"
    /\ UNCHANGED <<previous_selection, active_object, entry, edits>>
    /\ UNCHANGED notSelection

SelNext ==
    \/ Enter
    \/ \E o \in SceneObjs, state \in BOOLEAN : SelectSet(o, state)
    \/ \E o \in SceneObjs \cup {NoObj} : SetActive(o)
    \/ \E how \in {"return", "exception"} : Leave(how)

\* -------------------------------------------- unlink_object, unlink_objects
Linkables == {"mesh1", "mesh2", "bones"}

LinkableType(o) == IF o = "bones" THEN "ARMATURE" ELSE "MESH"

Libs == {"libA", "libB"}

NoLib == "none"

NoType == "none"

\* bpy.data.libraries.remove(lib): the library goes, and with it every
\* object linked from it
ObjectsOf(lib, libOf) == {o \in Linkables : libOf[o] = lib}

\* what unlink_object(obj) meets: a removed object (any attribute access
\* raises ReferenceError), an object with no library (libraries.remove(None)
\* raises TypeError), or a linked object
UnlinkCase(o, libOf, gone) ==
    IF o \in gone THEN "ReferenceError"
    ELSE IF libOf[o] = NoLib THEN "TypeError"
    ELSE "removed"

\* line 181: obj.type == type_ or type_ is None
Matches(o, type) == LinkableType(o) = type \/ type = NoType

UlPending == [raised |-> "none", value |-> FALSE, done |-> FALSE]

UlReturned(v) == [raised |-> "none", value |-> v, done |-> TRUE]

UlRaised(exc) == [raised |-> exc, value |-> FALSE, done |-> TRUE]

UnlinkIdle ==
    /\ removed = {}
    /\ libraries = Libs
    /\ ulPc = "idle"
    /\ ulObjects = <<>>
    /\ ulType = NoType
    /\ ulLeft = <<>>
    /\ ulRet = TRUE
    /\ ulOut = UlPending
    /\ attempted = {}
    /\ warnings = 0

\* no object is linked, no call is made
UnlinkNone ==
    /\ library = [o \in Linkables |-> NoLib]
    /\ UnlinkIdle

\* each object is local or linked from one of the libraries
UnlinkInit ==
    /\ library \in [Linkables -> Libs \cup {NoLib}]
    /\ UnlinkIdle

\* unlink_objects(objects, type_) is called; line 179
UnlinkObjects(objects, type) ==
    /\ ulPc = "idle"
    /\ ulObjects' = objects /\ ulType' = type
    /\ ulLeft' = objects
    /\ ulRet' = TRUE
    /\ ulPc' = "loop"
    /\ UNCHANGED <<library, removed, libraries, ulOut, attempted, warnings>>
    /\ UNCHANGED notUnlink

\* lines 180-182, one turn of the loop, with unlink_object (lines 162-167)
UnlinkOne ==
    /\ ulPc = "loop"
    /\ ulLeft # <<>>
    /\ LET o == Head(ulLeft)
       IN  IF o \in removed
           THEN \* line 181 reads obj.type of a removed object
                /\ ulOut' = UlRaised("ReferenceError")
                /\ ulPc' = "done"
                /\ UNCHANGED <<library, removed, libraries, ulLeft, ulRet, attempted, warnings>>
           ELSE IF ~Matches(o, ulType)
           THEN /\ ulLeft' = Tail(ulLeft)
                /\ UNCHANGED <<library, removed, libraries, ulPc, ulRet, ulOut, attempted,
                               warnings>>
           ELSE IF UnlinkCase(o, library, removed) = "TypeError"
           THEN \* caught at line 165: a warning, False
                /\ warnings' = warnings + 1
                /\ ulRet' = FALSE
                /\ attempted' = attempted \cup {o}
                /\ ulLeft' = Tail(ulLeft)
                /\ UNCHANGED <<library, removed, libraries, ulPc, ulOut>>
           ELSE /\ libraries' = libraries \ {library[o]}
                /\ removed' = removed \cup ObjectsOf(library[o], library)
                /\ attempted' = attempted \cup {o}
                /\ ulLeft' = Tail(ulLeft)
                /\ UNCHANGED <<library, ulPc, ulRet, ulOut, warnings>>
    /\ UNCHANGED <<ulObjects, ulType>>
    /\ UNCHANGED notUnlink

\* line 183: return ret
UnlinkReturn ==
    /\ ulPc = "loop"
    /\ ulLeft = <<>>
    /\ ulOut' = UlReturned(ulRet)
    /\ ulPc' = "done"
    /\ UNCHANGED <<library, removed, libraries, ulObjects, ulType, ulLeft, ulRet, attempted,
                   warnings>>
    /\ UNCHANGED notUnlink

UnlinkNext ==
    \/ \E objects \in InjSeqs(Linkables, MaxUnlink), type \in {NoType, "MESH", "ARMATURE"} :
          UnlinkObjects(objects, type)
    \/ UnlinkOne
    \/ UnlinkReturn

\* ============================================================ shapekeys.py
Meshes == {"m1", "m2"}

NoKeys == [given |-> FALSE, names |-> {}]

KeysArgs == {NoKeys} \cup {[given |-> TRUE, names |-> S] : S \in SUBSET {Plain("A"), Plain("B")}}

BaseNames == {Plain("Basis"), Plain("A")}

\* what a key's vertex data holds: the data of a key that existed before
\* the call, the undeformed mesh (shape_key_add(from_mix=False)), or a
\* set of evaluated positions, known by the source weights that shaped them
OldData == [kind |-> "old", w |-> <<>>]

RestData == [kind |-> "rest", w |-> <<>>]

EvalData(w) == [kind |-> "eval", w |-> w]

ShapeKey(name, value, data) == [name |-> name, value |-> value, data |-> data]

KeyNames(ks) == {ks[i].name : i \in 1..Len(ks)}

Weights(ks) == [i \in 1..Len(ks) |-> ks[i].value]

\* the key lists a mesh may hold before the call: names unique, at most
\* one key with its weight at 1
KeyLists(names, n) ==
    {[i \in 1..Len(ns) |-> ShapeKey(ns[i], IF i = hot THEN 1 ELSE 0, OldData)] :
        ns \in InjSeqs(names, n), hot \in 0..n}

\* obj.shape_key_add(name=key_name, from_mix=False): a new key at the end,
\* undeformed, weight 0, its name made unique by the host
add_shape_key(ks, key_name) ==
    Append(ks, ShapeKey(UniqueName(key_name, KeyNames(ks)), 0, RestData))

\* a faulty clear, which keeps the keys
ShapeKeyClearKeeps(ks) == ks

\* target.shape_key_clear()
shape_key_clear(ks) == <<>>

\* a faulty slice, which keeps the first key
SliceAll(ks) == [i \in 1..Len(ks) |-> i]

\* src_shape_keys[1:], as indices into the source list
SliceAfterBasis(ks) == [i \in 1..(Len(ks) - 1) |-> i + 1]

\* line 77: keys and src_key.name not in keys
SkipsKey(k, name) == k.given /\ k.names # {} /\ name \notin k.names

\* object.get_vertices_positions(context, target): the evaluated target,
\* deformed by the source under its current weights
get_vertices_positions(srcKeys, n) == [n |-> n, w |-> Weights(srcKeys)]

\* set_shape_key_data(shape_key, data)
set_shape_key_data(key, data) ==
    IF data.n # MaxVerts THEN key
    ELSE [key EXCEPT !.data = EvalData(data.w)]

\* no call in progress
ShapeIdle ==
    /\ pc = "idle"
    /\ src = NoObj /\ target = NoObj
    /\ keys = NoKeys
    /\ base_name = Plain("Basis")
    /\ nEval = MaxVerts
    /\ pre = mesh
    /\ src_shape_keys = "unset"
    /\ todo = <<>>
    /\ src_key = 0 /\ target_key = 0
    /\ positions = [n |-> 0, w |-> <<>>]
    /\ touched = {}

\* the source mesh m1 holds any key list, the other mesh a shorter one at rest
ShapeInit ==
    /\ \E ks \in KeyLists(Names, MaxKeys), old \in KeyLists(BaseNames, MaxOld) :
          /\ \A i \in 1..Len(old) : old[i].value = 0
          /\ mesh = [m \in Meshes |-> IF m = "m1" THEN ks ELSE old]
    /\ ShapeIdle

\* no mesh holds shape keys, no call is made
ShapeNone ==
    /\ mesh = [m \in Meshes |-> <<>>]
    /\ ShapeIdle

\* transfer_shape_keys(context, src, target, keys, base_name) is called
Call(s, t, k, b, n) ==
    /\ pc = "idle"
    /\ src' = s /\ target' = t /\ keys' = k /\ base_name' = b /\ nEval' = n
    /\ pre' = mesh
    /\ pc' = "check"
    /\ UNCHANGED <<mesh, src_shape_keys, todo, src_key, target_key, positions, touched>>
    /\ UNCHANGED notShape

\* lines 67-68: if not src or not target: return
CheckArgs ==
    /\ pc = "check"
    /\ pc' = IF src = NoObj \/ target = NoObj THEN "returned" ELSE "try"
    /\ UNCHANGED <<mesh, src, target, keys, base_name, nEval, pre, src_shape_keys,
                   todo, src_key, target_key, positions, touched>>
    /\ UNCHANGED notShape

\* lines 69-73: src.data.shape_keys.key_blocks, AttributeError when the
\* source mesh has no shape keys
GetSrcKeys ==
    /\ pc = "try"
    /\ IF mesh[src] = <<>>
       THEN pc' = "returned" /\ UNCHANGED src_shape_keys
       ELSE pc' = "clear" /\ src_shape_keys' = "live"
    /\ UNCHANGED <<mesh, src, target, keys, base_name, nEval, pre,
                   todo, src_key, target_key, positions, touched>>
    /\ UNCHANGED notShape

\* line 74: target.shape_key_clear(); the host frees the key data-block,
\* and a reference into it (src and target on one mesh) dangles
ClearTarget ==
    /\ pc = "clear"
    /\ mesh' = [mesh EXCEPT ![target] = shape_key_clear(mesh[target])]
    /\ src_shape_keys' = IF src = target /\ mesh'[target] = <<>> THEN "dangling" ELSE "live"
    /\ pc' = "base"
    /\ UNCHANGED <<src, target, keys, base_name, nEval, pre,
                   todo, src_key, target_key, positions, touched>>
    /\ UNCHANGED notShape

\* line 75: add_shape_key(target, base_name)
AddBase ==
    /\ pc = "base"
    /\ mesh' = [mesh EXCEPT ![target] = add_shape_key(mesh[target], base_name)]
    /\ pc' = "slice"
    /\ UNCHANGED <<src, target, keys, base_name, nEval, pre, src_shape_keys,
                   todo, src_key, target_key, positions, touched>>
    /\ UNCHANGED notShape

\* line 76, entering the loop: src_shape_keys[1:] is evaluated once.
\* Through a dangling reference the read is undefined: the host crashes,
\* or the read lands on the key data-block just made for the target.
Slice ==
    /\ pc = "slice"
    /\ \/ /\ src_shape_keys = "live"
          /\ todo' = SliceAfterBasis(mesh[src])
          /\ pc' = "loop"
       \/ /\ src_shape_keys = "dangling"
          /\ todo' = SliceAfterBasis(mesh[target])
          /\ pc' = "loop"
       \/ /\ src_shape_keys = "dangling"
          /\ todo' = todo
          /\ pc' = "crashed"
    /\ UNCHANGED <<mesh, src, target, keys, base_name, nEval, pre, src_shape_keys,
                   src_key, target_key, positions, touched>>
    /\ UNCHANGED notShape

\* lines 76-78: the next source key, skipped when keys does not list it
LoopNext ==
    /\ pc = "loop"
    /\ todo # <<>>
    /\ todo' = Tail(todo)
    /\ IF SkipsKey(keys, mesh[src][Head(todo)].name)
       THEN pc' = "loop" /\ src_key' = 0
       ELSE pc' = "add" /\ src_key' = Head(todo)
    /\ UNCHANGED <<mesh, src, target, keys, base_name, nEval, pre, src_shape_keys,
                   target_key, positions, touched>>
    /\ UNCHANGED notShape

\* line 79: target_key = add_shape_key(target, src_key.name)
AddKey ==
    /\ pc = "add"
    /\ mesh' = [mesh EXCEPT ![target] = add_shape_key(mesh[target], mesh[src][src_key].name)]
    /\ target_key' = Len(mesh'[target])
    /\ pc' = "weigh"
    /\ UNCHANGED <<src, target, keys, base_name, nEval, pre, src_shape_keys,
                   todo, src_key, positions, touched>>
    /\ UNCHANGED notShape

\* line 80: src_key.value = 1.0
SetWeight ==
    /\ pc = "weigh"
    /\ mesh' = [mesh EXCEPT ![src][src_key].value = 1]
    /\ touched' = touched \cup {src_key}
    /\ pc' = "read"
    /\ UNCHANGED <<src, target, keys, base_name, nEval, pre, src_shape_keys,
                   todo, src_key, target_key, positions>>
    /\ UNCHANGED notShape

\* line 81: positions = get_vertices_positions(context, target)
ReadPositions ==
    /\ pc = "read"
    /\ positions' = get_vertices_positions(mesh[src], nEval)
    /\ pc' = "store"
    /\ UNCHANGED <<mesh, src, target, keys, base_name, nEval, pre, src_shape_keys,
                   todo, src_key, target_key, touched>>
    /\ UNCHANGED notShape

\* line 82: set_shape_key_data(target_key, positions)
StoreData ==
    /\ pc = "store"
    /\ mesh' = [mesh EXCEPT ![target][target_key] =
                    set_shape_key_data(mesh[target][target_key], positions)]
    /\ pc' = "reset"
    /\ UNCHANGED <<src, target, keys, base_name, nEval, pre, src_shape_keys,
                   todo, src_key, target_key, positions, touched>>
    /\ UNCHANGED notShape

\* line 83: src_key.value = 0.0
ResetWeight ==
    /\ pc = "reset"
    /\ mesh' = [mesh EXCEPT ![src][src_key].value = 0]
    /\ touched' = touched \cup {src_key}
    /\ pc' = "loop"
    /\ UNCHANGED <<src, target, keys, base_name, nEval, pre, src_shape_keys,
                   todo, src_key, target_key, positions>>
    /\ UNCHANGED notShape

\* lines 84-86, after the loop: the call names the target's key data-block,
\* resets both active key indices (neither is state a key list depends on)
\* and returns
Finish ==
    /\ pc = "loop"
    /\ todo = <<>>
    /\ pc' = "returned"
    /\ UNCHANGED <<mesh, src, target, keys, base_name, nEval, pre, src_shape_keys,
                   todo, src_key, target_key, positions, touched>>
    /\ UNCHANGED notShape

ShapeNext ==
    \/ \E s \in {NoObj, "m1"}, t \in {NoObj} \cup Meshes, k \in KeysArgs,
          b \in BaseNames, n \in 1..MaxVerts : Call(s, t, k, b, n)
    \/ CheckArgs
    \/ GetSrcKeys
    \/ ClearTarget
    \/ AddBase
    \/ Slice
    \/ LoopNext
    \/ AddKey
    \/ SetWeight
    \/ ReadPositions
    \/ StoreData
    \/ ResetWeight
    \/ Finish

\* ---------------------------------------------- claims on transfer_shape_keys
\* the call has returned after transferring (it passed lines 67-73)
Transferred ==
    pc = "returned" /\ src # NoObj /\ target # NoObj /\ pre[src] # <<>>

\* the call has returned from line 68 or line 73
ReturnedEarly ==
    pc = "returned" /\ (src = NoObj \/ target = NoObj \/ pre[src] = <<>>)

\* the source weights under which the key copied from source key i is read:
\* key i at 1, the keys handled before it back at 0, the rest as they were
WeightsAtRead(i) ==
    [j \in 1..Len(pre[src]) |->
        IF j = i THEN 1 ELSE IF 1 < j /\ j < i THEN 0 ELSE pre[src][j].value]

\* C1, as claimed: with keys=None the call handles every source shape key,
\* and on return the target holds one transferred key per source shape key.
C1_OneKeyPerSourceKey ==
    (Transferred /\ src # target /\ ~keys.given) =>
        /\ Len(mesh[target]) = 1 + Len(pre[src])
        /\ touched = 1..Len(pre[src])

\* C1, amended: with keys=None and src, target on different meshes, the call
\* handles every source shape key but the first, in source order.  While a
\* key is handled its weight is 1 from line 80 to line 83, the keys handled
\* before it are back at 0 and the key being filled is the newest of the
\* target, at the source key's position; on return the target holds the base key
\* and, for the i-th source key (i > 1), at position i a key with that
\* key's name (counter-suffixed when the name is taken on the target)
\* holding the positions read under weight 1 for key i alone among the
\* handled keys (or left undeformed when the vertex counts differ), and
\* every source key but the first is at weight 0.
C1_TransfersEachKeyAfterBasis ==
    (src # NoObj /\ target # NoObj /\ src # target /\ ~keys.given) =>
        /\ pc \in {"read", "store", "reset"} =>
              /\ mesh[src][src_key].value = 1
              /\ \A j \in 2..(src_key - 1) : mesh[src][j].value = 0
        /\ pc \in {"add", "weigh"} =>
              \A j \in 2..(src_key - 1) : mesh[src][j].value = 0
        /\ pc \in {"weigh", "read", "store", "reset"} =>
              /\ src_key > 1
              /\ target_key = src_key
              /\ Len(mesh[target]) = src_key
        /\ Transferred =>
              /\ Len(mesh[target]) = Len(pre[src])
              /\ mesh[target][1] = ShapeKey(base_name, 0, RestData)
              /\ \A i \in 2..Len(pre[src]) :
                    LET made == mesh[target][i]
                        want == pre[src][i].name
                        taken == {mesh[target][j].name : j \in 1..(i - 1)}
                    IN  /\ made.name[1] = want[1]
                        /\ made.name \notin taken
                        /\ want \notin taken => made.name = want
                        /\ made.value = 0
                        /\ made.data = IF nEval = MaxVerts
                                       THEN EvalData(WeightsAtRead(i))
                                       ELSE RestData
              /\ touched = 2..Len(pre[src])
              /\ \A i \in 2..Len(pre[src]) : mesh[src][i].value = 0
              /\ mesh[src][1] = pre[src][1]
              /\ KeyNames(mesh[src]) = KeyNames(pre[src])

\* C1, witness: a call with keys=None has returned after copying two keys
\* of a three-key source, the positions stored.
C1_Witness ==
    /\ Transferred /\ src # target /\ ~keys.given
    /\ Len(pre[src]) = 3
    /\ Len(mesh[target]) = 3
    /\ mesh[target][3].data.kind = "eval"
    /\ touched = {2, 3}

\* C2: when the call transfers, the target's keys on return are the base
\* key named base_name followed by keys this call created, none of the keys
\* the target held before; when the call returns early, the target's keys
\* are as they were.
C2_ClearsTargetKeys ==
    /\ Transferred =>
          /\ mesh[target] # <<>>
          /\ mesh[target][1].name = base_name
          /\ \A i \in 1..Len(mesh[target]) : mesh[target][i].data.kind # "old"
    /\ (ReturnedEarly /\ target # NoObj) => mesh[target] = pre[target]

\* C2, witness: a transfer onto a target that held a key before, with a key
\* copied after the base key.
C2_Witness ==
    /\ Transferred
    /\ pre[target] # <<>>
    /\ Len(mesh[target]) >= 2

\* C3, as claimed: for every list passed as keys, the empty one included,
\* every key created on the target after the base key has a name in keys,
\* and no source key outside keys has its weight written.  (Stated where
\* no source name equals base_name, so that the host renames nothing.)
C3_OnlyListedKeys ==
    (Transferred /\ src # target /\ keys.given /\ base_name \notin KeyNames(pre[src])) =>
        /\ \A i \in 2..Len(mesh[target]) : mesh[target][i].name \in keys.names
        /\ \A j \in 1..Len(pre[src]) : pre[src][j].name \notin keys.names => j \notin touched

\* ---------------------------------------------- claims on export_fbx / export_gltf
\* the last n characters of the path, lower-cased one by one
LowerTail(path, n) ==
    IF Len(path) < n THEN <<>>
    ELSE [i \in 1..n |-> Lower(path[Len(path) - n + i])]

\* the path names a file of the exporter's format
RightFormat ==
    IF exporter = "fbx" THEN LowerTail(filepath, 4) = <<".", "f", "b", "x">>
    ELSE \/ LowerTail(filepath, 4) = <<".", "g", "l", "b">>
         \/ LowerTail(filepath, 5) = <<".", "g", "l", "t", "f">>

\* C4, as claimed: a failure the host exporter raises, of any of the kinds
\* missing attribute, type mismatch, I/O failure, is caught and the call
\* returns (False, message).
C4_EveryFailureCaught ==
    (exPc = "done" /\ hostResult \in {"AttributeError", "TypeError", "IOError"}) =>
        (ret.raised = "none" /\ ret.ok = FALSE)

\* C4, amended: an I/O failure (IOError) the host exporter raises is caught
\* and the call returns (False, message); an exception of any other kind
\* (missing attribute, type mismatch, runtime error) reaches the caller.
C4_OnlyIOErrorCaught ==
    exPc = "done" =>
        /\ hostResult = "IOError" =>
              (ret.raised = "none" /\ ret.ok = FALSE /\ ret.msg # "none")
        /\ hostResult \in HostRaises \ {"IOError"} => ret.raised = hostResult

\* C4, witness: the host exporter raised an I/O failure and the call is over.
C4_Witness ==
    exPc = "done" /\ hostResult = "IOError" /\ invocations = 1

\* C5: the call returns True first exactly when the path ends, whatever the
\* case, in the exporter's extension, the host exporter was invoked exactly
\* once, and that invocation neither returned CANCELLED nor raised; for any
\* other path the call returns (False, message) and the host exporter is
\* never invoked.
C5_SuccessFlag ==
    exPc = "done" =>
        /\ (ret.raised = "none" /\ ret.ok) <=>
              (RightFormat /\ invocations = 1 /\ hostResult = "FINISHED")
        /\ ~RightFormat =>
              (ret.raised = "none" /\ ~ret.ok /\ ret.msg # "none" /\ invocations = 0
                 /\ hostResult = NotRun)
        /\ invocations <= 1

\* C5, witness: an export to a path with an upper-case extension succeeded.
C5_Witness ==
    /\ exPc = "done" /\ ret.raised = "none" /\ ret.ok
    /\ filepath # lower(filepath)

\* ---------------------------------- claims on set_armature, set_armature_on_objects
ArmatureCount(stack) == Cardinality({i \in 1..Len(stack) : stack[i].type = "ARMATURE"})

\* the first armature modifier of the stack targets a and bears the name
FirstArmatureModifierIs(stack, a, name) ==
    \E i \in 1..Len(stack) :
        /\ stack[i].type = "ARMATURE"
        /\ \A j \in 1..(i - 1) : stack[j].type # "ARMATURE"
        /\ stack[i].object = a
        /\ stack[i].name = name

\* the first armature modifier of the stack targets a; it is named
\* "Armature" if no other modifier of the stack is, and "Armature" with a
\* counter suffix otherwise
FirstArmatureModifierFits(stack, a) ==
    \E i \in 1..Len(stack) :
        /\ stack[i].type = "ARMATURE"
        /\ \A j \in 1..(i - 1) : stack[j].type # "ARMATURE"
        /\ stack[i].object = a
        /\ stack[i].name[1] = "Armature"
        /\ \A j \in (1..Len(stack)) \ {i} : stack[j].name # stack[i].name
        /\ (\A j \in (1..Len(stack)) \ {i} : stack[j].name # Plain("Armature"))
              => stack[i].name = Plain("Armature")

\* armature is an armature and obj a kind of object that takes modifiers
CanAttach(o, a) == TypeOf(a) = "ARMATURE" /\ SupportsModifiers(TypeOf(o))

\* one more armature modifier than before only if there was none
AddsOnlyTheFirst(before, after) ==
    ArmatureCount(after) = IF ArmatureCount(before) = 0 THEN 1 ELSE ArmatureCount(before)

C7_AllObjects ==
    armCall.fn = "set_armature_on_objects" =>
        LET objects == armCall.objects
            a == armCall.armature
            others == {i \in 1..Len(objects) : TypeOf(objects[i]) # "ARMATURE"}
        IN  /\ armCall.ok <=> \A i \in others : CanAttach(objects[i], a)
            /\ \A i \in (1..Len(objects)) \ others :
                  /\ parent[objects[i]] = armPre.parent[objects[i]]
                  /\ modifiers[objects[i]] = armPre.modifiers[objects[i]]
            /\ \A i \in others :
                  IF CanAttach(objects[i], a)
                  THEN FirstArmatureModifierFits(modifiers[objects[i]], a)
                  ELSE /\ parent[objects[i]] = armPre.parent[objects[i]]
                       /\ modifiers[objects[i]] = armPre.modifiers[objects[i]]

\* C7, witness: the list held a light, which cannot be attached, before a
\* mesh, which was attached all the same; the call returned False.
C7_Witness ==
    /\ armCall.fn = "set_armature_on_objects" /\ ~armCall.ok
    /\ armCall.objects = <<"lamp", "body">>
    /\ parent["body"] = armCall.armature
    /\ FirstArmatureModifierFits(modifiers["body"], armCall.armature)

\* ------------------------------------------ claims on maintain_object_selection
\* C8, as claimed: whatever selection changes the with-block makes, and
\* however it ends, the selected objects and the active object after the
\* block are those before it.
C8_SelectionRestored ==
    selPc = "after" =>
        /\ selected = entry.selected
        /\ active = entry.active

\* ------------------------------------------------------ claims on unlink_objects
\* the objects of the list that the call is to unlink
ToUnlink == {ulObjects[i] : i \in {j \in 1..Len(ulObjects) : Matches(ulObjects[j], ulType)}}

\* C9, as claimed: the call returns, without raising: True if every object
\* of matching type was unlinked (or none was to be), False if one was not
\* linked; and every object of matching type was attempted, also when two
\* of them come from one library.
C9_UnlinkObjectsReturns ==
    ulPc = "done" =>
        /\ ulOut.raised = "none"
        /\ ulOut.value <=> \A o \in ToUnlink : library[o] # NoLib
        /\ attempted = ToUnlink

\* ========================================================== specifications
\* transfer_shape_keys called once, on any arguments
InitShape == ShapeInit /\ ExportIdle /\ ArmNone /\ SelNone /\ UnlinkNone

SpecShape == InitShape /\ [][ShapeNext]_vars

\* export_fbx or export_gltf called once, on any path, the host doing anything
InitExport == ShapeNone /\ ExportIdle /\ ArmNone /\ SelNone /\ UnlinkNone

SpecExport == InitExport /\ [][ExportNext]_vars

\* set_armature called once or again alike, or set_armature_on_objects once
InitArmature == ShapeNone /\ ExportIdle /\ ArmInit /\ SelNone /\ UnlinkNone

SpecArmature == InitArmature /\ [][ArmNext]_vars

\* a with-block under maintain_object_selection, changing the selection
InitSelection == ShapeNone /\ ExportIdle /\ ArmNone /\ SelInit /\ UnlinkNone

SpecSelection == InitSelection /\ [][SelNext]_vars

\* unlink_objects called once, on any list of objects
InitUnlink == ShapeNone /\ ExportIdle /\ ArmNone /\ SelNone /\ UnlinkInit

SpecUnlink == InitUnlink /\ [][UnlinkNext]_vars

\* the program as a whole: any of the calls, in any order
Init == ShapeInit /\ ExportIdle /\ ArmInit /\ SelInit /\ UnlinkInit

Next == ShapeNext \/ ExportNext \/ ArmNext \/ SelNext \/ UnlinkNext

Spec == Init /\ [][Next]_vars

====
